---- MODULE Spec2Model ----
(***************************************************************************)
(* The training control loop of train.py: train(), check_model() and the   *)
(* files they keep (the checkpoint at opt.model_file and the history at    *)
(* opt.history_file), over successive runs of the program on one model     *)
(* path.                                                                   *)
(***************************************************************************)
EXTENDS Integers, FiniteSets, Sequences, TLC

\* ------------------------------------------------------------------ bounds
MaxEpochs == 5
MaxPatience == 2
RLAfter == 1
CkptFrom == 1
CkptEvery == 2
BatchesPerEpoch == 2
MaxMetric == 1
MaxRuns == 2
SeqLength == 3
SeqPerImg == 3
SSAfter == 2

\* float('-inf'): below every score a validation can produce
NegInf == -1

\* ------------------------------------------------------------- vocabulary
Metrics == {"Bleu_4", "CIDEr", "METEOR", "ROUGE_L"}

\* the keys of the scorer table of train()
ScorerTable == {"Bleu_4", "CIDEr", "METEOR", "ROUGE_L"}

EvalMetrics == {"CIDEr", "MSRVTT"}

NoScorer == "unbound"

\* infos carries no metric keys before the first validation
NoScores == [m \in {} |-> 0]

\* what language_eval can report: a validation that gains on CIDEr loses as
\* much on each of the other three metrics
ValScores == {[m \in Metrics |-> IF m = "CIDEr" THEN c ELSE MaxMetric - c] :
                 c \in 0..MaxMetric}

\* the options that steer the loop
BaseOpts == {o \in [max_epochs : 1..MaxEpochs,
                    max_patience : {0, MaxPatience},
                    use_rl : {0, 1},
                    use_rl_after : {0, RLAfter},
                    eval_metric : EvalMetrics,
                    save_checkpoint_from : {0, CkptFrom},
                    save_checkpoint_every : {1, CkptEvery}] :
                o.use_rl = 0 => o.use_rl_after = 0}

\* the annealing options of the runs that do not vary them; ss_max_prob is
\* in thousandths
DefaultKnobOpts ==
    [use_mixer |-> 1, mixer_from |-> -1, mixer_descrease_every |-> 1,
     use_cst |-> 1, scb_captions |-> -1, cst_increase_every |-> 1,
     use_cst_after |-> 0,
     use_ss |-> 1, use_ss_after |-> 0, ss_k |-> 1, ss_max_prob |-> 250]

\* the configurations of a run (opt)
Opts == {o @@ DefaultKnobOpts : o \in BaseOpts}

\* the configurations that vary one family of annealing options at a time:
\* the annealed and the fixed settings of the family, and the family off
MixerKnobOpts ==
    {[DefaultKnobOpts EXCEPT !.mixer_descrease_every = d] : d \in {1, 2}}
    \cup {[DefaultKnobOpts EXCEPT !.mixer_from = f] : f \in {0, SeqLength - 1}}
    \cup {[DefaultKnobOpts EXCEPT !.use_mixer = 0]}

CstKnobOpts ==
    {[DefaultKnobOpts EXCEPT !.cst_increase_every = d, !.use_cst_after = a] :
        d \in {1, 2}, a \in {0, RLAfter + 1}}
    \cup {[DefaultKnobOpts EXCEPT !.scb_captions = n] : n \in {1, SeqPerImg}}
    \cup {[DefaultKnobOpts EXCEPT !.use_cst = 0]}

SsKnobOpts ==
    {[DefaultKnobOpts EXCEPT !.use_ss_after = a, !.ss_k = k,
                             !.ss_max_prob = p] :
        a \in {0, SSAfter}, k \in {1, 2}, p \in {250, 1000}}
    \cup {[DefaultKnobOpts EXCEPT !.use_ss = 0]}

AnnealOpts ==
    {o @@ k : o \in {b \in BaseOpts : /\ b.max_epochs = MaxEpochs
                                      /\ b.max_patience = 0
                                      /\ b.use_rl = 1
                                      /\ b.eval_metric = "CIDEr"
                                      /\ b.save_checkpoint_from = 0
                                      /\ b.save_checkpoint_every = 1},
              k \in MixerKnobOpts \cup CstKnobOpts \cup SsKnobOpts}

VARIABLES
    pc,                 \* position of the program
    run,                \* number of times train() has been entered
    resumed,            \* this run took the os.path.exists(opt.start_from) branch
    opt,                \* the parsed configuration
    use_rl_after,       \* opt.use_rl_after, which train() overwrites
    infos,
    checkpoint_checked,
    rl_training,
    bcmr_scorer,
    infos_history,
    loader,             \* the train loader: current epoch and position in it
    model_file,         \* the checkpoint at opt.model_file
    history_file,       \* the JSON at opt.history_file
    steps,              \* optimizer.step() calls of this run
    lr_arg,             \* last epoch argument given to adjust_learning_rate
    used_rl,            \* the loss of the last update was the RL loss
    knobs,              \* ss_prob, mixer_from, scb_captions of the iteration
    val,                \* the locals of a validate() call
    err                 \* the exception that ended the run, if any

vars == <<pc, run, resumed, opt, use_rl_after, infos, checkpoint_checked,
          rl_training, bcmr_scorer, infos_history, loader, model_file,
          history_file, steps, lr_arg, used_rl, knobs, val, err>>

\* ------------------------------------------------------------ train(): setup
\* (mutant) best_epoch starts at 0
InitInfosBestZero(o) ==
    [iter |-> 0, epoch |-> 0, start_epoch |-> 0, best_score |-> NegInf,
     best_iter |-> 0, best_epoch |-> 0, scores |-> NoScores]

InitInfos(o) ==
    [iter |-> 0, epoch |-> 0, start_epoch |-> 0, best_score |-> NegInf,
     best_iter |-> 0, best_epoch |-> o.max_epochs, scores |-> NoScores]

NoLR == -1

EmptyHistory == [e \in {} |-> InitInfos([max_epochs |-> 0])]

NoFile == [exists |-> FALSE, complete |-> FALSE,
           infos |-> InitInfos([max_epochs |-> 0])]

NoHistoryFile == [exists |-> FALSE, data |-> EmptyHistory]

\* torch.save({'model', 'infos', 'opt'}, opt.model_file)
SaveCheckpoint(i) == [exists |-> TRUE, complete |-> TRUE, infos |-> i]

\* a torch.save that was cut short: it writes opt.model_file in place, so the
\* file is there and holds a part of the record
PartialCheckpoint(i) == [exists |-> TRUE, complete |-> FALSE, infos |-> i]

\* a new DataLoader
NewLoader == [epoch |-> 0, pos |-> 0]

\* train_loader.get_batch(): the epoch counter moves when the data wraps
GetBatch(l) ==
    IF l.pos + 1 >= BatchesPerEpoch
    THEN [epoch |-> l.epoch + 1, pos |-> 0]
    ELSE [epoch |-> l.epoch, pos |-> l.pos + 1]

\* infos after the start_from branch
LoadInfos(o, resume, ckpt) ==
    IF resume
    THEN [ckpt.infos EXCEPT !.start_epoch = ckpt.infos.epoch]
    ELSE InitInfos(o)

\* the base checkpoint, written only when no model file exists
BaseCheckpoint(mf, i) == IF ~mf.exists THEN SaveCheckpoint(i) ELSE mf

\* if opt.use_rl == 1 and opt.use_rl_after == 0
RLFromStart(o) == o.use_rl = 1 /\ o.use_rl_after = 0

\* the annealed values before the first iteration computes them
NoKnobs(o) ==
    [ss_prob |-> 0, mixer_from |-> o.mixer_from,
     scb_captions |-> o.scb_captions]

\* no validate() call is in progress
NoVal == [num_videos |-> 0, batch_size |-> 0, num_iters |-> 0,
          last_batch_size |-> 0, ii |-> 0, pos |-> 0,
          feats |-> <<>>, rows |-> <<>>, predictions |-> <<>>]

TrainInit(resume) ==
    /\ pc \in {"start", "done", "error"}
    /\ run < MaxRuns
    /\ resume => model_file.exists /\ model_file.complete
    /\ LET i == LoadInfos(opt, resume, model_file) IN
        /\ infos' = i
        /\ checkpoint_checked' = resume
        /\ model_file' = BaseCheckpoint(model_file, i)
        /\ use_rl_after' = IF RLFromStart(opt) THEN i.epoch ELSE opt.use_rl_after
        /\ loader' = IF RLFromStart(opt)
                     THEN [NewLoader EXCEPT !.epoch = i.epoch]
                     ELSE NewLoader
    /\ run' = run + 1
    /\ resumed' = resume
    /\ rl_training' = FALSE
    /\ bcmr_scorer' = NoScorer
    /\ infos_history' = EmptyHistory
    /\ steps' = 0
    /\ lr_arg' = NoLR
    /\ used_rl' = FALSE
    /\ err' = "none"
    /\ pc' = "top"
    /\ knobs' = NoKnobs(opt)
    /\ UNCHANGED <<opt, history_file, val>>

TrainFromScratch == TrainInit(FALSE)

\* the process dies while torch.save writes the base checkpoint
TrainInitWriteFails ==
    /\ pc \in {"start", "done", "error"}
    /\ run < MaxRuns
    /\ ~model_file.exists
    /\ infos' = InitInfos(opt)
    /\ checkpoint_checked' = FALSE
    /\ model_file' = PartialCheckpoint(infos')
    /\ use_rl_after' = opt.use_rl_after
    /\ loader' = NewLoader
    /\ run' = run + 1
    /\ resumed' = FALSE
    /\ rl_training' = FALSE
    /\ bcmr_scorer' = NoScorer
    /\ infos_history' = EmptyHistory
    /\ steps' = 0
    /\ lr_arg' = NoLR
    /\ used_rl' = FALSE
    /\ knobs' = NoKnobs(opt)
    /\ err' = "WriteCut"
    /\ pc' = "error"
    /\ UNCHANGED <<opt, history_file, val>>

\* torch.load(opt.start_from) raises on a file that is not a whole record
TrainResumeFails ==
    /\ pc \in {"start", "done", "error"}
    /\ run < MaxRuns
    /\ model_file.exists /\ ~model_file.complete
    /\ infos' = InitInfos(opt)
    /\ checkpoint_checked' = FALSE
    /\ use_rl_after' = opt.use_rl_after
    /\ loader' = NewLoader
    /\ run' = run + 1
    /\ resumed' = TRUE
    /\ rl_training' = FALSE
    /\ bcmr_scorer' = NoScorer
    /\ infos_history' = EmptyHistory
    /\ steps' = 0
    /\ lr_arg' = NoLR
    /\ used_rl' = FALSE
    /\ knobs' = NoKnobs(opt)
    /\ err' = "LoadError"
    /\ pc' = "error"
    /\ UNCHANGED <<opt, model_file, history_file, val>>

TrainResume == TrainInit(TRUE)

\* ------------------------------------------------ train(): one iteration
\* (mutant) the switch does not ask whether RL is enabled
StartRLUnconditional(o, after, i, rl) == i.epoch >= after /\ ~rl

\* the guard of the XE -> RL switch
StartRL(o, after, i, rl) == o.use_rl = 1 /\ i.epoch >= after /\ ~rl

Min(a, b) == IF a <= b THEN a ELSE b

Max(a, b) == IF a >= b THEN a ELSE b

\* np.ceil(a / b) for b > 0
CeilDiv(a, b) == -((-a) \div b)

\* 1000 * np.exp(j / 2), rounded, for j = 0 .. 20
ExpTable ==
    <<1000, 1649, 2718, 4482, 7389, 12182, 20086, 33115, 54598, 90017,
      148413, 244692, 403429, 665142, 1096633, 1808042, 2980958, 4914769,
      8103084, 13359727, 22026466>>

\* 1000 * np.exp(d / k) for k in {1, 2}
ExpMilli(d, k) == ExpTable[Min((2 * d) \div k, Len(ExpTable) - 1) + 1]

\* (mutant) the probability is not capped by ss_max_prob
SSProbNoCap(o, i) ==
    IF o.use_ss = 1 /\ i.epoch >= o.use_ss_after
    THEN 1000 - (o.ss_k * 1000000) \div
                    (o.ss_k * 1000 + ExpMilli(i.epoch - o.use_ss_after, o.ss_k))
    ELSE 0

\* opt.ss_prob, in thousandths
SSProb(o, i) ==
    IF o.use_ss = 1 /\ i.epoch >= o.use_ss_after
    THEN LET annealing_prob ==
                 (o.ss_k * 1000000) \div
                     (o.ss_k * 1000 + ExpMilli(i.epoch - o.use_ss_after, o.ss_k))
         IN  Min(1000 - annealing_prob, o.ss_max_prob)
    ELSE 0

\* (mutant) the annealed cutoff has no floor
MixerFromNoFloor(o, after, i, rl) ==
    IF o.use_mixer = 1 /\ rl /\ o.mixer_from = -1
    THEN SeqLength - CeilDiv(i.epoch - after + 1, o.mixer_descrease_every)
    ELSE o.mixer_from

\* the local mixer_from
MixerFrom(o, after, i, rl) ==
    IF o.use_mixer = 1 /\ rl /\ o.mixer_from = -1
    THEN Max(1, SeqLength - CeilDiv(i.epoch - after + 1, o.mixer_descrease_every))
    ELSE o.mixer_from

\* opt.use_cst_after, which train() overwrites together with use_rl_after
UseCstAfter(o, after) == IF RLFromStart(o) THEN after ELSE o.use_cst_after

\* (mutant) the annealed count has no cap
ScbCaptionsNoCap(o, after, i, rl) ==
    IF o.use_cst = 1 /\ rl /\ o.scb_captions = -1
    THEN CeilDiv(i.epoch - UseCstAfter(o, after) + 1, o.cst_increase_every)
    ELSE o.scb_captions

\* the local scb_captions
ScbCaptions(o, after, i, rl) ==
    IF o.use_cst = 1 /\ rl /\ o.scb_captions = -1
    THEN Min(CeilDiv(i.epoch - UseCstAfter(o, after) + 1, o.cst_increase_every),
             SeqPerImg - 1)
    ELSE o.scb_captions

\* top of the loop: batch fetch, scheduled sampling, the RL switch and its
\* scorer lookup, then the mixer cutoff and the robust-baseline count
BeginIter ==
    /\ pc = "top"
    /\ loader' = GetBatch(loader)
    /\ IF StartRL(opt, use_rl_after, infos, rl_training)
       THEN /\ rl_training' = TRUE
            /\ IF opt.eval_metric \in ScorerTable
               THEN /\ bcmr_scorer' = opt.eval_metric
                    /\ pc' = "update"
                    /\ err' = err
               ELSE /\ bcmr_scorer' = bcmr_scorer
                    /\ pc' = "error"
                    /\ err' = "KeyError"
       ELSE /\ pc' = "update"
            /\ UNCHANGED <<rl_training, bcmr_scorer, err>>
    /\ knobs' = IF pc' = "error"
                THEN [knobs EXCEPT !.ss_prob = SSProb(opt, infos)]
                ELSE [ss_prob |-> SSProb(opt, infos),
                      mixer_from |->
                          MixerFrom(opt, use_rl_after, infos, rl_training'),
                      scb_captions |->
                          ScbCaptions(opt, use_rl_after, infos, rl_training')]
    /\ UNCHANGED <<val, run, resumed, opt, use_rl_after, infos, checkpoint_checked,
                   infos_history, model_file, history_file, steps, lr_arg,
                   used_rl>>

\* (mutant) the failure is swallowed and the update goes on with a zero reward
RewardFailureZeroed ==
    /\ steps' = steps + 1
    /\ used_rl' = TRUE
    /\ infos' = [infos EXCEPT !.iter = @ + 1]
    /\ pc' = "rollover"
    /\ err' = "RewardError"

\* the exception of the reward computation leaves train() uncaught
RewardFailure ==
    /\ pc' = "error"
    /\ err' = "RewardError"
    /\ UNCHANGED <<infos, steps, used_rl>>

\* loss.backward(), optimizer.step(), infos['iter'] += 1
GradientStep(rl) ==
    /\ steps' = steps + 1
    /\ used_rl' = rl
    /\ infos' = [infos EXCEPT !.iter = @ + 1]
    /\ pc' = "rollover"
    /\ err' = err

\* forward pass, reward (RL) or cross entropy, backward pass, optimizer step
Update ==
    /\ pc = "update"
    /\ IF rl_training
       THEN \E ok \in BOOLEAN : IF ok THEN GradientStep(TRUE) ELSE RewardFailure
       ELSE GradientStep(FALSE)
    /\ UNCHANGED <<val, knobs, run, resumed, opt, use_rl_after, checkpoint_checked,
                   rl_training, bcmr_scorer, infos_history, loader, model_file,
                   history_file, lr_arg>>

\* (mutant) the schedule is fed the absolute epoch
LREpochAbsolute(i) == i.epoch

\* the epoch argument of utils.adjust_learning_rate
LREpoch(i) == i.epoch - i.start_epoch

\* (mutant) the loader's epoch is taken over without the comparison
RolloverNoGuard ==
    /\ pc = "rollover"
    /\ infos' = [infos EXCEPT !.epoch = loader.epoch]
    /\ checkpoint_checked' = FALSE
    /\ lr_arg' = LREpoch(infos')
    /\ pc' = "validate"
    /\ UNCHANGED <<val, knobs, run, resumed, opt, use_rl_after, rl_training,
                   bcmr_scorer, infos_history, loader, model_file,
                   history_file, steps, used_rl, err>>

Rollover ==
    /\ pc = "rollover"
    /\ IF infos.epoch < loader.epoch
       THEN /\ infos' = [infos EXCEPT !.epoch = loader.epoch]
            /\ checkpoint_checked' = FALSE
            /\ lr_arg' = LREpoch(infos')
       ELSE UNCHANGED <<infos, checkpoint_checked, lr_arg>>
    /\ pc' = "validate"
    /\ UNCHANGED <<val, knobs, run, resumed, opt, use_rl_after, rl_training, bcmr_scorer,
                   infos_history, loader, model_file, history_file, steps,
                   used_rl, err>>

\* ------------------------------------------------------------ check_model
Sum4(s) == s["Bleu_4"] + s["METEOR"] + s["ROUGE_L"] + s["CIDEr"]

CurrentScore(metric, i) ==
    IF metric = "MSRVTT" THEN Sum4(i.scores) ELSE i.scores[metric]

\* (mutant) only a strictly better score counts
IsBestStrict(score, best) == score > best

\* current_score >= infos['best_score']
IsBest(score, best) == score >= best

\* (mutant) the history is a list appended to: the key is its length
PutHistoryAppend(h, i) ==
    LET k == Cardinality(DOMAIN h)
    IN  [e \in DOMAIN h \cup {k} |-> IF e = k THEN i ELSE h[e]]

\* infos_history[infos['epoch']] = infos.copy()
PutHistory(h, i) ==
    [e \in DOMAIN h \cup {i.epoch} |-> IF e = i.epoch THEN i ELSE h[e]]

\* (mutant) the checkpoint is written before the best fields are set
check_modelSavesFirst(o, i, h, mf) ==
    LET current_score == CurrentScore(o.eval_metric, i)
        best == IsBest(current_score, i.best_score)
        i2 == IF best
              THEN [i EXCEPT !.best_score = current_score,
                             !.best_iter = i.iter,
                             !.best_epoch = i.epoch]
              ELSE i
        h2 == PutHistory(h, i2)
    IN  [infos |-> i2,
         model_file |-> IF best THEN SaveCheckpoint(i) ELSE mf,
         infos_history |-> h2,
         history_file |-> [exists |-> TRUE, data |-> h2]]

check_model(o, i, h, mf) ==
    LET current_score == CurrentScore(o.eval_metric, i)
        best == IsBest(current_score, i.best_score)
        i2 == IF best
              THEN [i EXCEPT !.best_score = current_score,
                             !.best_iter = i.iter,
                             !.best_epoch = i.epoch]
              ELSE i
        h2 == PutHistory(h, i2)
    IN  [infos |-> i2,
         model_file |-> IF best THEN SaveCheckpoint(i2) ELSE mf,
         infos_history |-> h2,
         history_file |-> [exists |-> TRUE, data |-> h2]]

\* (mutant) the epoch that reaches max_epochs is not validated
ShouldValidateNotFinal(o, i, checked) ==
    /\ i.epoch >= o.save_checkpoint_from
    /\ i.epoch % o.save_checkpoint_every = 0
    /\ ~checked
    /\ i.epoch < o.max_epochs

\* (mutant) the latch is not consulted
ShouldValidateNoLatch(o, i, checked) ==
    /\ i.epoch >= o.save_checkpoint_from
    /\ i.epoch % o.save_checkpoint_every = 0

\* the condition under which an iteration validates
ShouldValidate(o, i, checked) ==
    /\ i.epoch >= o.save_checkpoint_from
    /\ i.epoch % o.save_checkpoint_every = 0
    /\ ~checked

Validate ==
    /\ pc = "validate"
    /\ IF ShouldValidate(opt, infos, checkpoint_checked)
       THEN \E s \in ValScores :
              LET r == check_model(opt, [infos EXCEPT !.scores = s],
                                   infos_history, model_file) IN
                /\ infos' = r.infos
                /\ infos_history' = r.infos_history
                /\ model_file' = r.model_file
                /\ history_file' = r.history_file
                /\ checkpoint_checked' = TRUE
       ELSE UNCHANGED <<infos, infos_history, model_file, history_file,
                        checkpoint_checked>>
    /\ pc' = "terminate"
    /\ UNCHANGED <<val, knobs, run, resumed, opt, use_rl_after, rl_training, bcmr_scorer,
                   loader, steps, lr_arg, used_rl, err>>

\* the process dies while check_model's torch.save writes the new best
\* checkpoint: the best fields are already set, the history is not yet touched
CheckpointWriteFails ==
    /\ pc = "validate"
    /\ ShouldValidate(opt, infos, checkpoint_checked)
    /\ \E s \in ValScores :
          LET r == check_model(opt, [infos EXCEPT !.scores = s],
                               infos_history, model_file) IN
            /\ IsBest(CurrentScore(opt.eval_metric, r.infos), infos.best_score)
            /\ infos' = r.infos
            /\ model_file' = PartialCheckpoint(r.infos)
    /\ pc' = "error"
    /\ err' = "WriteCut"
    /\ UNCHANGED <<val, knobs, run, resumed, opt, use_rl_after, rl_training,
                   bcmr_scorer, loader, steps, lr_arg, used_rl, infos_history,
                   history_file, checkpoint_checked>>

\* ------------------------------------------------------ termination check
\* (mutant) patience compared with >=
ShouldStopGe(o, i) ==
    \/ i.epoch >= o.max_epochs
    \/ i.epoch - i.best_epoch >= o.max_patience

\* (mutant) the epoch bound compared with >
ShouldStopGt(o, i) ==
    \/ i.epoch > o.max_epochs
    \/ i.epoch - i.best_epoch > o.max_patience

\* (mutant) no early stopping
ShouldStopNoPatience(o, i) == i.epoch >= o.max_epochs

ShouldStop(o, i) ==
    \/ i.epoch >= o.max_epochs
    \/ i.epoch - i.best_epoch > o.max_patience

Terminate ==
    /\ pc = "terminate"
    /\ pc' = IF ShouldStop(opt, infos) THEN "done" ELSE "top"
    /\ UNCHANGED <<val, knobs, run, resumed, opt, use_rl_after, infos, checkpoint_checked,
                   rl_training, bcmr_scorer, infos_history, loader, model_file,
                   history_file, steps, lr_arg, used_rl, err>>

\* ------------------------------------------------------------ specification
Init ==
    /\ pc = "start"
    /\ run = 0
    /\ resumed = FALSE
    /\ opt \in Opts
    /\ use_rl_after = opt.use_rl_after
    /\ infos = InitInfos(opt)
    /\ checkpoint_checked = FALSE
    /\ rl_training = FALSE
    /\ bcmr_scorer = NoScorer
    /\ infos_history = EmptyHistory
    /\ loader = NewLoader
    /\ model_file = NoFile
    /\ history_file = NoHistoryFile
    /\ steps = 0
    /\ lr_arg = NoLR
    /\ used_rl = FALSE
    /\ knobs = NoKnobs(opt)
    /\ val = NoVal
    /\ err = "none"

Next ==
    \/ TrainFromScratch
    \/ TrainInitWriteFails
    \/ TrainResume
    \/ TrainResumeFails
    \/ BeginIter
    \/ Update
    \/ Rollover
    \/ Validate
    \/ CheckpointWriteFails
    \/ Terminate

Spec == Init /\ [][Next]_vars

\* the loop is sequential code: a run that has started goes on to its next
\* step, and the loader hands out a batch whenever it is asked
LoopStep == BeginIter \/ Update \/ Rollover \/ Validate \/ Terminate

FairSpec == Spec /\ WF_vars(LoopStep)

\* the same program, started with the configurations that vary the annealing
\* options
InitAnneal ==
    /\ pc = "start"
    /\ run = 0
    /\ resumed = FALSE
    /\ opt \in AnnealOpts
    /\ use_rl_after = opt.use_rl_after
    /\ infos = InitInfos(opt)
    /\ checkpoint_checked = FALSE
    /\ rl_training = FALSE
    /\ bcmr_scorer = NoScorer
    /\ infos_history = EmptyHistory
    /\ loader = NewLoader
    /\ model_file = NoFile
    /\ history_file = NoHistoryFile
    /\ steps = 0
    /\ lr_arg = NoLR
    /\ used_rl = FALSE
    /\ knobs = NoKnobs(opt)
    /\ val = NoVal
    /\ err = "none"

SpecAnneal == InitAnneal /\ [][Next]_vars

\* ----------------------------------------- check_model called on its own
\* A harness that calls check_model repeatedly, with and without a change of
\* infos between two calls. pc counts the calls made since infos changed.
MaxCallEpoch == 2
MaxVideos == 7
MaxBatch == 4

CallInfos ==
    {i \in [iter : 1..(MaxCallEpoch + 1), epoch : 0..MaxCallEpoch,
            start_epoch : {0}, best_score : NegInf..(4 * MaxMetric),
            best_iter : 0..(MaxCallEpoch + 1), best_epoch : 0..MaxEpochs,
            scores : ValScores] :
        IF i.best_score = NegInf
        THEN i.best_iter = 0 /\ i.best_epoch = MaxEpochs
        ELSE /\ i.best_iter >= 1
             /\ i.best_iter <= i.iter
             /\ i.best_epoch <= i.epoch}

CallInit ==
    /\ pc = "call0"
    /\ run = 1
    /\ resumed = FALSE
    /\ opt \in {o \in Opts : /\ o.max_epochs = MaxEpochs
                             /\ o.max_patience = MaxPatience
                             /\ o.use_rl = 0
                             /\ o.save_checkpoint_from = 0
                             /\ o.save_checkpoint_every = 1}
    /\ use_rl_after = opt.use_rl_after
    /\ infos \in CallInfos
    /\ checkpoint_checked = FALSE
    /\ rl_training = FALSE
    /\ bcmr_scorer = NoScorer
    /\ infos_history = EmptyHistory
    /\ loader = NewLoader
    /\ model_file = NoFile
    /\ history_file = NoHistoryFile
    /\ steps = 0
    /\ lr_arg = NoLR
    /\ used_rl = FALSE
    /\ knobs = NoKnobs(opt)
    /\ val = NoVal
    /\ err = "none"

CallCheckModel ==
    /\ pc \in {"call0", "call1"}
    /\ LET r == check_model(opt, infos, infos_history, model_file) IN
        /\ infos' = r.infos
        /\ infos_history' = r.infos_history
        /\ model_file' = r.model_file
        /\ history_file' = r.history_file
    /\ pc' = IF pc = "call0" THEN "call1" ELSE "call2"
    /\ UNCHANGED <<val, knobs, run, resumed, opt, use_rl_after, checkpoint_checked,
                   rl_training, bcmr_scorer, loader, steps, lr_arg, used_rl,
                   err>>

\* training goes on to the next epoch and validates again
CallNextValidation ==
    /\ pc \in {"call1", "call2"}
    /\ infos.epoch < MaxCallEpoch
    /\ \E s \in ValScores :
          infos' = [infos EXCEPT !.epoch = @ + 1, !.iter = @ + 1, !.scores = s]
    /\ pc' = "call0"
    /\ UNCHANGED <<val, knobs, run, resumed, opt, use_rl_after, checkpoint_checked,
                   rl_training, bcmr_scorer, infos_history, loader, model_file,
                   history_file, steps, lr_arg, used_rl, err>>

CallNext ==
    \/ CallCheckModel
    \/ CallNextValidation

SpecCheckModel == CallInit /\ [][CallNext]_vars

\* ------------------------------------------------------------- validate()
\* loader.get_batch() of the validation loader: batch_size samples from the
\* cursor on, starting over at the first sample when the set is exhausted
BatchIds(v) ==
    [k \in 1..v.batch_size |-> ((v.pos + k - 1) % v.num_videos) + 1]

\* (mutant) the last batch is not sliced
SliceSizeWhole(v) == v.batch_size

\* the number of samples of the batch that validate() keeps
SliceSize(v) ==
    IF v.ii = v.num_iters - 1 /\ v.last_batch_size > 0
    THEN v.last_batch_size
    ELSE v.batch_size

\* the sizes of the validation set and of its batches
ValInit ==
    /\ pc = "v_start"
    /\ run = 1
    /\ resumed = FALSE
    /\ opt \in {o \in Opts : /\ o.max_epochs = MaxEpochs
                             /\ o.max_patience = MaxPatience
                             /\ o.use_rl = 0
                             /\ o.eval_metric = "CIDEr"
                             /\ o.save_checkpoint_from = 0
                             /\ o.save_checkpoint_every = 1}
    /\ use_rl_after = opt.use_rl_after
    /\ infos = InitInfos(opt)
    /\ checkpoint_checked = FALSE
    /\ rl_training = FALSE
    /\ bcmr_scorer = NoScorer
    /\ infos_history = EmptyHistory
    /\ loader = NewLoader
    /\ model_file = NoFile
    /\ history_file = NoHistoryFile
    /\ steps = 0
    /\ lr_arg = NoLR
    /\ used_rl = FALSE
    /\ knobs = NoKnobs(opt)
    /\ val \in {[NoVal EXCEPT !.num_videos = n, !.batch_size = b] :
                  n \in 1..MaxVideos, b \in 1..MaxBatch}
    /\ err = "none"

ValUnchanged ==
    UNCHANGED <<knobs, run, resumed, opt, use_rl_after, infos,
                checkpoint_checked, rl_training, bcmr_scorer, infos_history,
                loader, model_file, history_file, steps, lr_arg, used_rl, err>>

\* loader.reset(), num_iters, last_batch_size
ValidateSetup ==
    /\ pc = "v_start"
    /\ val' = [val EXCEPT !.num_iters = CeilDiv(val.num_videos, val.batch_size),
                          !.last_batch_size = val.num_videos % val.batch_size,
                          !.ii = 0,
                          !.pos = 0]
    /\ pc' = "v_loop"
    /\ ValUnchanged

\* one pass of the loop: fetch, slice a short last batch, decode, and append
\* one prediction per decoded sentence with the id at its place in the batch
ValidateBatch ==
    /\ pc = "v_loop"
    /\ val.ii < val.num_iters
    /\ LET ids == BatchIds(val)
           size == SliceSize(val)
       IN  val' = [val EXCEPT
                     !.feats = Append(@, size),
                     !.rows = Append(@, size * SeqPerImg),
                     !.predictions = @ \o [jj \in 1..size |-> ids[jj]],
                     !.pos = (@ + val.batch_size) % val.num_videos,
                     !.ii = @ + 1]
    /\ pc' = "v_loop"
    /\ ValUnchanged

\* the loop is exhausted
ValidateEnd ==
    /\ pc = "v_loop"
    /\ val.ii = val.num_iters
    /\ pc' = "v_done"
    /\ UNCHANGED val
    /\ ValUnchanged

ValNext == ValidateSetup \/ ValidateBatch \/ ValidateEnd

SpecValidate == ValInit /\ [][ValNext]_vars

\* ------------------------------------------------------------------ claims
\* the termination condition of the loop, written out
StopCondition ==
    \/ infos.epoch >= opt.max_epochs
    \/ infos.epoch - infos.best_epoch > opt.max_patience

\* C1: the loop stops exactly when, at the end of an iteration, epoch >=
\* max_epochs or epoch - best_epoch > max_patience: every iteration ends in
\* the termination check, the check leaves the loop iff the condition holds,
\* the loop is left nowhere else, and nothing of the run follows the exit.
C1_StopsExactlyWhenConditionHolds ==
    [][/\ pc = "terminate" => (pc' = "done" <=> StopCondition)
       /\ pc = "terminate" => (pc' = "top" <=> ~StopCondition)
       /\ (pc' = "done" /\ pc # "done") => (pc = "terminate" /\ StopCondition)
       /\ (pc' = "top" /\ run' = run) => pc = "terminate"
       /\ pc = "done" => run' # run]_vars

\* a run that the patience condition alone has stopped
C1_Witness ==
    /\ pc = "done"
    /\ infos.epoch < opt.max_epochs
    /\ infos.epoch - infos.best_epoch > opt.max_patience
    /\ steps > 0

\* C2 (as stated): with best_epoch fixed at b, training has stopped by the
\* time epoch reaches b + max_patience; in particular with max_epochs = 5,
\* max_patience = 2 and best_epoch stuck at 1, no iteration is under way, past
\* its validation step, with epoch > 3, and the loop does not exit with
\* epoch > 3.
C2_StopsByBestPlusPatience ==
    (/\ opt.max_epochs = 5
     /\ opt.max_patience = 2
     /\ infos.best_epoch = 1
     /\ pc \in {"top", "update", "terminate", "done"})
        => infos.epoch <= 3

\* C2 (amended): training stops at the end of the iteration in which epoch
\* first exceeds best_epoch + max_patience, whatever max_epochs is: no
\* iteration starts with epoch > best_epoch + max_patience, and epoch never
\* exceeds best_epoch + max_patience + 1.
C2_StopsOnceBeyondPatience ==
    /\ pc \in {"top", "update"}
          => infos.epoch <= infos.best_epoch + opt.max_patience
    /\ pc \in {"rollover", "validate", "terminate", "done"}
          => infos.epoch <= infos.best_epoch + opt.max_patience + 1

\* max_epochs = 5, max_patience = 2, best_epoch stuck at 1: stopped at epoch 4
C2_Witness ==
    /\ opt.max_epochs = 5
    /\ opt.max_patience = 2
    /\ infos.best_epoch = 1
    /\ infos.epoch = 4
    /\ pc = "done"

\* the step in which check_model runs
CheckModelStep ==
    /\ pc = "validate"
    /\ infos.epoch >= opt.save_checkpoint_from
    /\ infos.epoch % opt.save_checkpoint_every = 0
    /\ ~checkpoint_checked

\* the score check_model compares, from the scores of the validation
ScoreOf(i) ==
    IF opt.eval_metric = "MSRVTT"
    THEN i.scores["Bleu_4"] + i.scores["METEOR"] + i.scores["ROUGE_L"]
             + i.scores["CIDEr"]
    ELSE i.scores[opt.eval_metric]

\* C3: check_model changes best_score, best_iter and best_epoch iff the
\* current score is >= best_score; then they become the current score, iter
\* and epoch and the checkpoint is written; otherwise the three and the
\* checkpoint stay as they are. No other step of a run changes them, and
\* best_score never decreases within a run.
C3_BestUpdatedIffScoreReachesBest ==
    [][/\ (CheckModelStep /\ pc' # "error"
                           /\ ScoreOf(infos') >= infos.best_score)
            => /\ infos'.best_score = ScoreOf(infos')
               /\ infos'.best_iter = infos.iter
               /\ infos'.best_epoch = infos.epoch
               /\ model_file' = [exists |-> TRUE, complete |-> TRUE,
                                 infos |-> infos']
       /\ (CheckModelStep /\ ScoreOf(infos') < infos.best_score)
            => /\ infos'.best_score = infos.best_score
               /\ infos'.best_iter = infos.best_iter
               /\ infos'.best_epoch = infos.best_epoch
               /\ model_file' = model_file
       /\ (~CheckModelStep /\ run' = run)
            => /\ infos'.best_score = infos.best_score
               /\ infos'.best_iter = infos.best_iter
               /\ infos'.best_epoch = infos.best_epoch
               /\ model_file' = model_file
       /\ run' = run => infos'.best_score >= infos.best_score]_vars

\* a tie has moved best_epoch from an earlier epoch to the current one
C3_Witness ==
    /\ pc = "terminate"
    /\ checkpoint_checked
    /\ infos.best_epoch = infos.epoch
    /\ model_file.infos = infos
    /\ \E e \in DOMAIN infos_history :
          /\ e < infos.epoch
          /\ infos_history[e].best_epoch = e
          /\ infos_history[e].best_score = infos.best_score

\* C4: rl_training becomes true only at the top of an iteration where
\* use_rl = 1 and epoch >= use_rl_after, the scorer of the configured metric
\* is bound in that step (unless the lookup raises, which ends the run), it
\* is bound nowhere else, rl_training never returns to false within the run,
\* and an update uses the RL loss iff rl_training holds.
C4_RLSwitchIsOneShot ==
    [][/\ (~rl_training /\ rl_training')
            => /\ pc = "top"
               /\ opt.use_rl = 1
               /\ infos.epoch >= use_rl_after
               /\ pc' # "error" => /\ bcmr_scorer' = opt.eval_metric
                                   /\ bcmr_scorer' \in ScorerTable
       /\ (bcmr_scorer' # bcmr_scorer /\ run' = run)
            => (~rl_training /\ rl_training')
       /\ (rl_training /\ run' = run) => rl_training'
       /\ (pc = "update" /\ pc' = "rollover")
            => /\ used_rl' = rl_training
               /\ rl_training => bcmr_scorer = opt.eval_metric]_vars

\* an RL update after cross-entropy updates of the same run
C4_Witness ==
    /\ pc = "rollover"
    /\ used_rl
    /\ rl_training
    /\ bcmr_scorer = opt.eval_metric
    /\ use_rl_after > 0
    /\ infos.epoch >= use_rl_after

\* C5: validation and check_model run only when, after the rollover step,
\* epoch >= save_checkpoint_from, epoch % save_checkpoint_every = 0 and the
\* latch is false; running them sets the latch and happens at most once per
\* epoch value of a run; only an epoch rollover clears the latch; a resumed
\* run starts with the latch set and does not validate the resumed epoch.
C5_ValidationOncePerEpoch ==
    [][/\ (pc = "validate" /\ (infos' # infos \/ infos_history' # infos_history
                                 \/ history_file' # history_file
                                 \/ model_file' # model_file))
            => /\ infos.epoch >= opt.save_checkpoint_from
               /\ infos.epoch % opt.save_checkpoint_every = 0
               /\ ~checkpoint_checked
               /\ pc' # "error" => checkpoint_checked'
               /\ infos.epoch \notin DOMAIN infos_history
               /\ resumed => infos.epoch > infos.start_epoch
       /\ (checkpoint_checked /\ ~checkpoint_checked' /\ run' = run)
            => (pc = "rollover" /\ infos'.epoch > infos.epoch)
       /\ (run' # run /\ resumed' /\ pc' # "error") => checkpoint_checked']_vars

\* a resumed run has passed the validation step at the resumed, eligible
\* epoch without validating it
C5_Witness ==
    /\ resumed
    /\ pc = "terminate"
    /\ infos.epoch = infos.start_epoch
    /\ infos.epoch >= opt.save_checkpoint_from
    /\ infos.epoch % opt.save_checkpoint_every = 0
    /\ checkpoint_checked
    /\ DOMAIN infos_history = {}
    /\ steps > 0

\* C6: a second call of check_model with infos unchanged leaves best_score
\* and best_epoch as the first call left them, and infos_history keeps its
\* keys: the entry of the epoch is overwritten, none is added.
C6_CheckModelIdempotent ==
    [][(pc = "call1" /\ pc' = "call2")
          => /\ infos'.best_score = infos.best_score
             /\ infos'.best_epoch = infos.best_epoch
             /\ infos.epoch \in DOMAIN infos_history
             /\ DOMAIN infos_history' = DOMAIN infos_history
             /\ Cardinality(DOMAIN infos_history')
                   = Cardinality(DOMAIN infos_history)
             /\ infos_history'[infos.epoch] = infos'
             /\ DOMAIN history_file'.data = DOMAIN history_file.data]_vars

\* two calls in a row at a second validated epoch, the score a tie with the
\* best one
C6_Witness ==
    /\ pc = "call2"
    /\ infos.best_epoch = infos.epoch
    /\ Cardinality(DOMAIN infos_history) = 2
    /\ \E e \in DOMAIN infos_history :
          e < infos.epoch /\ infos_history[e].best_score = infos.best_score

\* C7 (as stated): once the history file holds an entry for an epoch key,
\* every later state of the file holds one, in a first run and in a run
\* resumed on the same model and history path.
C7_HistoryNeverPruned ==
    [][(history_file.exists /\ (run' = 1 \/ resumed'))
          => /\ history_file'.exists
             /\ DOMAIN history_file.data \subseteq DOMAIN history_file'.data]_vars

\* C8: a resumed run sets start_epoch to the checkpoint's epoch and keeps its
\* best_score, and every learning-rate recomputation is given
\* epoch - start_epoch, the epochs since the resume.
C8_ResumeFeedsEpochsSinceResume ==
    [][/\ (run' # run /\ resumed' /\ pc' # "error")
            => /\ infos'.start_epoch = model_file.infos.epoch
               /\ infos'.epoch = model_file.infos.epoch
               /\ infos'.best_score = model_file.infos.best_score
               /\ lr_arg' = NoLR
       /\ (pc = "rollover" /\ infos'.epoch # infos.epoch)
            => /\ lr_arg' = infos'.epoch - infos'.start_epoch
               /\ infos'.start_epoch = infos.start_epoch
       /\ (lr_arg' # lr_arg /\ run' = run)
            => (pc = "rollover" /\ infos'.epoch # infos.epoch)]_vars

\* a run resumed at epoch 3 has recomputed the learning rate for epoch 4
C8_Witness ==
    /\ resumed
    /\ infos.start_epoch = 3
    /\ infos.epoch = 4
    /\ lr_arg = 1

\* C9: a failing reward computation ends the iteration and the run with the
\* error: no optimizer step, iter unchanged, no validation, checkpoint or
\* history write, and nothing of the run follows.
C9_RewardFailureAbortsUpdate ==
    [][/\ (err' = "RewardError" /\ err # "RewardError")
            => /\ pc = "update"
               /\ rl_training
               /\ pc' = "error"
               /\ steps' = steps
               /\ infos' = infos
               /\ model_file' = model_file
               /\ history_file' = history_file
               /\ infos_history' = infos_history
       /\ err = "RewardError" => (pc = "error" /\ run' # run)]_vars

\* the reward failed in an RL iteration after an update that succeeded
C9_Witness ==
    /\ pc = "error"
    /\ err = "RewardError"
    /\ rl_training
    /\ used_rl
    /\ steps > 0

\* C10 (as stated): with use_rl = 1 and an eval_metric outside the scorer
\* table, the run aborts before any training state is mutated: no base
\* checkpoint, no optimizer step, iter and epoch unchanged.
C10_InvalidMetricFatalAtStartup ==
    (opt.use_rl = 1
        /\ opt.eval_metric \notin {"Bleu_4", "CIDEr", "METEOR", "ROUGE_L"})
      => /\ ~model_file.exists
         /\ steps = 0
         /\ infos.iter = 0
         /\ infos.epoch = 0

\* C11: the file at model_file is at every point either absent or a complete
\* checkpoint, also when a write of it in train() or check_model is cut short.
C11_CheckpointNeverPartial == model_file.exists => model_file.complete

\* an iteration that has passed the top of the loop with the RL phase active
\* and the mixer in use
MixerIter == pc = "top" /\ pc' = "update" /\ rl_training' /\ opt.use_mixer = 1

\* C12 as stated: in every iteration with the RL phase active and
\* use_mixer = 1 the mixer_from handed to the model, fixed or annealed, is
\* >= 1 and not larger than in the iteration before.
C12_MixerAtLeastOne ==
    [][MixerIter => /\ knobs'.mixer_from >= 1
                    /\ rl_training => knobs'.mixer_from <= knobs.mixer_from]_vars

\* C12 (amended): with mixer_from = -1 the value handed to the model is
\* max(1, seq_length - ceil((epoch - use_rl_after + 1) / mixer_descrease_every)),
\* which is >= 1 and non-increasing over the iterations of a run; any other
\* configured mixer_from is handed to the model as it is.
C12_AnnealedMixerFlooredFixedPassedThrough ==
    [][MixerIter =>
         /\ opt.mixer_from = -1
              => /\ knobs'.mixer_from =
                        Max(1, SeqLength - CeilDiv(infos.epoch - use_rl_after + 1,
                                                   opt.mixer_descrease_every))
                 /\ knobs'.mixer_from >= 1
                 /\ rl_training => knobs'.mixer_from <= knobs.mixer_from
         /\ opt.mixer_from # -1 => knobs'.mixer_from = opt.mixer_from]_vars

\* the annealed cutoff has run into its floor: without max(1, .) it would be
\* below 1
C12_Witness ==
    /\ pc = "update" /\ rl_training
    /\ opt.use_mixer = 1 /\ opt.mixer_from = -1
    /\ knobs.mixer_from = 1
    /\ SeqLength - CeilDiv(infos.epoch - use_rl_after + 1,
                           opt.mixer_descrease_every) < 1

\* an iteration that has passed the top of the loop with the RL phase active
\* and the consensus reward in use
CstIter == pc = "top" /\ pc' = "update" /\ rl_training' /\ opt.use_cst = 1

\* C13 as stated: in every iteration with the RL phase active and
\* use_cst = 1 the scb_captions passed to the consensus reward, fixed or
\* annealed, is at most seq_per_img - 1 and not smaller than in the
\* iteration before.
C13_ScbAtMostSeqPerImgMinusOne ==
    [][CstIter => /\ knobs'.scb_captions <= SeqPerImg - 1
                  /\ rl_training
                       => knobs'.scb_captions >= knobs.scb_captions]_vars

\* C13 (amended): with scb_captions = -1 the value passed to the consensus
\* reward is min(ceil((epoch - use_cst_after + 1) / cst_increase_every),
\* seq_per_img - 1), which never exceeds seq_per_img - 1 and is
\* non-decreasing over the iterations of a run; any other configured
\* scb_captions is passed as it is.
C13_AnnealedScbCappedFixedPassedThrough ==
    [][CstIter =>
         /\ opt.scb_captions = -1
              => /\ knobs'.scb_captions =
                        Min(CeilDiv(infos.epoch
                                      - (IF opt.use_rl = 1 /\ opt.use_rl_after = 0
                                         THEN use_rl_after
                                         ELSE opt.use_cst_after) + 1,
                                    opt.cst_increase_every),
                            SeqPerImg - 1)
                 /\ knobs'.scb_captions <= SeqPerImg - 1
                 /\ rl_training => knobs'.scb_captions >= knobs.scb_captions
         /\ opt.scb_captions # -1 => knobs'.scb_captions = opt.scb_captions]_vars

\* the annealed count has run into its cap: without min(., seq_per_img - 1)
\* it would be above it
C13_Witness ==
    /\ pc = "update" /\ rl_training
    /\ opt.use_cst = 1 /\ opt.scb_captions = -1
    /\ knobs.scb_captions = SeqPerImg - 1
    /\ CeilDiv(infos.epoch - opt.use_cst_after + 1, opt.cst_increase_every)
           > SeqPerImg - 1
    /\ ~(opt.use_rl = 1 /\ opt.use_rl_after = 0)

\* C14: the ss_prob an iteration computes is 0 while epoch < use_ss_after or
\* use_ss # 1; from use_ss_after on it is
\* min(1 - ss_k / (ss_k + exp((epoch - use_ss_after) / ss_k)), ss_max_prob),
\* never above ss_max_prob and never below the value of the iteration before.
C14_ScheduledSamplingProbability ==
    [][pc = "top" =>
         /\ (opt.use_ss # 1 \/ infos.epoch < opt.use_ss_after)
              => knobs'.ss_prob = 0
         /\ (opt.use_ss = 1 /\ infos.epoch >= opt.use_ss_after)
              => /\ knobs'.ss_prob =
                        Min(1000 - (opt.ss_k * 1000000) \div
                                       (opt.ss_k * 1000
                                          + ExpMilli(infos.epoch - opt.use_ss_after,
                                                     opt.ss_k)),
                            opt.ss_max_prob)
                 /\ knobs'.ss_prob <= opt.ss_max_prob
                 /\ knobs'.ss_prob >= knobs.ss_prob]_vars

\* scheduled sampling started at a later epoch and its probability has grown
\* since, still below the cap
C14_Witness ==
    /\ pc = "update"
    /\ opt.use_ss = 1 /\ opt.use_ss_after = SSAfter
    /\ infos.epoch > opt.use_ss_after
    /\ knobs.ss_prob > 500 /\ knobs.ss_prob < opt.ss_max_prob

\* the epoch is one that validation is due for
EligibleEpoch ==
    /\ infos.epoch >= opt.save_checkpoint_from
    /\ infos.epoch % opt.save_checkpoint_every = 0

\* C15: within an iteration the rollover comes before the validation check
\* and the validation check before the termination check, and the loop is
\* left only by the termination check; so once the validation check of an
\* iteration has passed, an eligible epoch that a rollover of this run has
\* entered is in the history of check_model, with the iteration count of the
\* rollover, also when it is the epoch that reaches max_epochs.
C15_RolloverThenValidationThenTermination ==
    /\ [][/\ pc = "rollover" => pc' = "validate"
          /\ (pc = "validate" /\ pc' # "error") => pc' = "terminate"
          /\ pc' = "done" => pc = "terminate"
          /\ (pc = "rollover" /\ infos'.epoch # infos.epoch)
               => /\ ~checkpoint_checked'
                  /\ lr_arg' = infos'.epoch - infos'.start_epoch
          /\ (pc = "validate" /\ pc' # "error" /\ ~checkpoint_checked
                /\ EligibleEpoch)
               => /\ infos.epoch \in DOMAIN infos_history'
                  /\ infos_history'[infos.epoch].iter = infos.iter
                  /\ infos_history'[infos.epoch].epoch = infos.epoch]_vars
    /\ []((pc \in {"terminate", "done", "top", "update", "rollover"}
             /\ lr_arg # NoLR /\ EligibleEpoch)
            => infos.epoch \in DOMAIN infos_history)

\* the loop has ended at the epoch that reached max_epochs, which a rollover
\* entered and the same iteration validated
C15_Witness ==
    /\ pc = "done"
    /\ lr_arg # NoLR
    /\ infos.epoch = opt.max_epochs
    /\ EligibleEpoch
    /\ infos.epoch \in DOMAIN infos_history
    /\ infos_history[infos.epoch].iter = infos.iter
    /\ opt.save_checkpoint_every = CkptEvery

\* C16: in a run from scratch, once check_model has been called, the
\* checkpoint at model_file is the one of the best validation so far: it is
\* complete, its best_score is the best_score in memory and its epoch and
\* iter are best_epoch and best_iter; and a step of a run that is not a
\* check_model call with a score >= best_score leaves the file as it is.
C16_CheckpointIsLatestBest ==
    /\ []((~resumed /\ DOMAIN infos_history # {}
             /\ pc \in {"terminate", "top", "update", "rollover", "validate",
                        "done"})
            => /\ model_file.exists /\ model_file.complete
               /\ model_file.infos.best_score = infos.best_score
               /\ model_file.infos.epoch = infos.best_epoch
               /\ model_file.infos.iter = infos.best_iter
               /\ model_file.infos.best_epoch = infos.best_epoch
               /\ model_file.infos.best_iter = infos.best_iter)
    /\ [][(run' = run /\ ~(/\ pc = "validate"
                           /\ EligibleEpoch
                           /\ ~checkpoint_checked
                           /\ ScoreOf(infos') >= infos.best_score))
            => model_file' = model_file]_vars

\* a run from scratch has validated twice and the later validation did not
\* reach the best score: the file still is the checkpoint of the earlier one
C16_Witness ==
    /\ ~resumed
    /\ pc = "terminate"
    /\ Cardinality(DOMAIN infos_history) >= 2
    /\ infos.epoch \in DOMAIN infos_history
    /\ infos.best_epoch < infos.epoch
    /\ model_file.complete
    /\ model_file.infos.epoch = infos.best_epoch
    /\ model_file.infos.scores # infos.scores

\* C17: with a loader whose epoch keeps advancing, a run that has entered the
\* loop leaves it, by the termination check or by a step that raises; and a
\* run from scratch, where the loader epoch advances by one at a time, leaves
\* the loop with epoch <= max_epochs.
C17_LoopTerminates ==
    /\ (pc \in {"top", "update", "rollover", "validate", "terminate"}
          ~> pc \in {"done", "error"})
    /\ []((~resumed /\ pc = "done") => infos.epoch <= opt.max_epochs)

\* a run from scratch has run all its epochs, one loader epoch at a time, and
\* left the loop at max_epochs
C17_Witness ==
    /\ ~resumed
    /\ pc = "done"
    /\ err = "none"
    /\ opt.max_epochs = MaxEpochs
    /\ infos.epoch = opt.max_epochs
    /\ loader.epoch = opt.max_epochs
    /\ steps = MaxEpochs * BatchesPerEpoch

\* C18: in a run from scratch, as long as check_model has not run, best_epoch
\* still is max_epochs, so the patience condition holds only where
\* epoch >= max_epochs holds as well; a loop left before the first
\* check_model was left by the epoch bound.
C18_PatienceNeedsAValidation ==
    (~resumed /\ DOMAIN infos_history = {} /\ pc # "error"
       /\ opt.max_patience >= 0)
      => /\ infos.best_epoch = opt.max_epochs
         /\ infos.epoch - infos.best_epoch > opt.max_patience
              => infos.epoch >= opt.max_epochs
         /\ pc = "done" => infos.epoch >= opt.max_epochs

\* a run from scratch with no patience has ended without any validation
C18_Witness ==
    /\ ~resumed
    /\ pc = "done"
    /\ DOMAIN infos_history = {}
    /\ opt.max_patience = 0
    /\ infos.epoch >= opt.max_epochs
    /\ steps > 0

\* C19: within a run infos.epoch never decreases and changes only in the
\* rollover step, which sets it to the loader's current epoch; after the
\* rollover step of an iteration infos.epoch >= the loader's epoch, and in a
\* run from scratch the two are equal.
C19_EpochFollowsLoader ==
    /\ [][run' = run
            => /\ infos'.epoch >= infos.epoch
               /\ infos'.epoch # infos.epoch
                    => /\ pc = "rollover"
                       /\ infos'.epoch = loader.epoch
                       /\ loader' = loader]_vars
    /\ [](pc \in {"validate", "terminate", "done"}
            => /\ infos.epoch >= loader.epoch
               /\ ~resumed => infos.epoch = loader.epoch)

\* a resumed run whose new loader is still behind the resumed epoch has
\* passed a rollover step, which left the epoch alone
C19_Witness ==
    /\ resumed
    /\ pc = "validate"
    /\ steps > 0
    /\ infos.epoch > loader.epoch
    /\ infos.epoch = infos.start_epoch

\* C20: for every num_videos >= 1 and batch_size >= 1, validate() runs
\* ceil(num_videos / batch_size) batches, keeps num_videos mod batch_size
\* samples (and that many times seq_per_img rows of labels and masks) of a
\* short last batch and whole batches otherwise, and returns num_videos
\* predictions, the k-th carrying the id of the k-th sample of the set, which
\* is the id at its place in its batch.
C20_ValidateCoversSetOnce ==
    /\ pc \in {"v_loop", "v_done"}
         => /\ val.num_iters * val.batch_size >= val.num_videos
            /\ (val.num_iters - 1) * val.batch_size < val.num_videos
            /\ Len(val.feats) = val.ii
            /\ Len(val.rows) = val.ii
            /\ \A k \in 1..val.ii :
                 /\ val.feats[k] =
                        IF k = val.num_iters
                             /\ val.num_videos % val.batch_size # 0
                        THEN val.num_videos % val.batch_size
                        ELSE val.batch_size
                 /\ val.rows[k] = val.feats[k] * SeqPerImg
            /\ \A k \in 1..Len(val.predictions) :
                 val.predictions[k] =
                     ((((k - 1) \div val.batch_size) * val.batch_size
                         + ((k - 1) % val.batch_size)) % val.num_videos) + 1
    /\ pc = "v_done"
         => /\ val.ii = val.num_iters
            /\ Len(val.predictions) = val.num_videos
            /\ \A k \in 1..val.num_videos : val.predictions[k] = k

\* a validation whose last batch was short has ended
C20_Witness ==
    /\ pc = "v_done"
    /\ val.num_iters > 1
    /\ val.last_batch_size > 0
    /\ val.feats[val.num_iters] = val.last_batch_size
    /\ val.feats[val.num_iters] < val.batch_size
    /\ Len(val.predictions) = val.num_videos

====
